---------------------------- MODULE Spec2Model ----------------------------
(***************************************************************************)
(* Model of the hybrid retrieval engine of second-brain-cloud              *)
(* (src/execution/retrieve_chats.py).                                      *)
(*                                                                         *)
(* Units.  Scores, similarities and ts_rank values are integers in         *)
(* thousandths (0.84 is 840).  Embeddings are integer vectors of norm 10   *)
(* (unit vectors in tenths), so a dot product is in hundredths.  Ages are  *)
(* whole days.  The MMR diversity is in tenths (0.3 is 3).                 *)
(***************************************************************************)
EXTENDS Integers, Sequences, FiniteSets, TLC

VARIABLES
    store,   \* rows of the conversations table, in physical order
    cfg,     \* st.secrets: the configuration surface
    req,     \* the arguments and the environment of one hybrid_retrieve call
    out,     \* the outcome of that call
    session, \* st.session_state of the chat application
    shown,   \* the notification the last button press put on the page
    ret,     \* the value the last save_conversation call returned
    job,     \* the state of the re-embedding job
    conns,   \* the connection pool of the DatabaseManager and its users
    digest   \* the weekly_digests table, the clock and the page loads

vars == <<store, cfg, req, out, session, shown, ret, job, conns, digest>>

\* what the retrieval and the chat application never touch
background == <<job, conns, digest>>

-----------------------------------------------------------------------------
(* Bounds of the model *)

TagRecords == 2      \* rows of a store whose metadata varies
AgeRecords == 2      \* rows of a store whose embedding and timestamp vary
PoolRecords == 3     \* rows of a store whose scores and keyword match vary
MaxTurn == 1         \* largest stored turn_number
MaxTopK == 3         \* largest top_k passed by the caller
MaxPrompts == 2      \* prompts entered in one chat
MaxChats == 1        \* New Chat presses in one run of the application
MaxSaved == 1        \* rows the application inserts in one run
LegacyRows == 1      \* rows an earlier version left in the store
MaxCost == 1         \* largest voice_cost and grok_cost, in charged requests
Callers == 1         \* threads followed step by step through get_connection
OtherSessions == 10  \* further sessions that may be inside a query
DigestSessions == 2  \* sessions that load the page
MaxWeeks == 2        \* weeks the clock runs through

(* Program constants *)

DefaultTopK == 6            \* RETRIEVAL_TOP_K
DefaultSessionLimit == 10   \* SESSION_HISTORY_LIMIT
DefaultVectorK == 15        \* VECTOR_SEARCH_K
DefaultKeywordK == 10       \* KEYWORD_SEARCH_K
DefaultDiversity == 3       \* MMR_DIVERSITY 0.3, in tenths
DefaultRecencyDays == 7     \* RECENCY_BOOST_DAYS
MonthDays == 30             \* timedelta(days=30)
BoostRecent == 12           \* boost = 1.2, in tenths
BoostMonth == 11            \* boost = 1.1, in tenths
BoostNone == 10             \* boost = 1.0, in tenths
ScoreOne == 1000            \* the clamp 1.0 of a keyword score
MaxConn == 10               \* ThreadedConnectionPool(maxconn=10)
Sunday == 6                 \* now.weekday() != 6
DigestHour == 18            \* now.hour < 18
DigestGapDays == 6          \* days_since >= 6

-----------------------------------------------------------------------------
(* Sequences *)

Range(s) == {s[i] : i \in DOMAIN s}

Min2(a, b) == IF a <= b THEN a ELSE b

Take(s, n) == IF n <= 0 THEN << >> ELSE SubSeq(s, 1, Min2(n, Len(s)))

\* s[:n-1]: a slice that stops one short
SliceOneShort(s, n) == Take(s, n - 1)

\* Python's s[:n], n of either sign
Slice(s, n) == IF n >= 0 THEN Take(s, n) ELSE Take(s, Len(s) + n)

\* insert x after every element whose key is >= the key of x
RECURSIVE InsertDesc(_, _, _)
InsertDesc(s, x, kx) ==
    IF s = << >> THEN <<x>>
    ELSE IF Head(s).key >= kx THEN <<Head(s)>> \o InsertDesc(Tail(s), x, kx)
    ELSE <<x>> \o s

RECURSIVE SortKeyed(_)
SortKeyed(s) ==
    IF s = << >> THEN << >>
    ELSE InsertDesc(SortKeyed(SubSeq(s, 1, Len(s) - 1)), s[Len(s)], s[Len(s)].key)

\* list.sort(key=..., reverse=True): descending and stable
SortByScoreDesc(docs) ==
    LET keyed == [i \in DOMAIN docs |-> [key |-> docs[i].score, val |-> docs[i]]]
        sorted == SortKeyed(keyed)
    IN [i \in DOMAIN sorted |-> sorted[i].val]

Dot(a, b) == a[1] * b[1] + a[2] * b[2]


-----------------------------------------------------------------------------
(* The persistence store as PostgreSQL evaluates the two queries.  A row is  *)
(*   [id, metadata, embedding, content_emb, matches, rank, ts_ok, age]       *)
(* metadata is the JSON object (a key may be missing), embedding the stored  *)
(* vector, content_emb the embedding of the first 500 characters of the      *)
(* transcript, matches/rank the full-text match and ts_rank for the query    *)
(* text, ts_ok whether datetime.fromisoformat parses created_at::text, and   *)
(* age the days elapsed since created_at.                                    *)

\* metadata->>'conversation_id' = %s, in SQL's three-valued logic
SqlConvEq(md, conv) ==
    IF "conversation_id" \in DOMAIN md
    THEN (IF md.conversation_id = conv THEN "true" ELSE "false")
    ELSE "null"

\* the comparison written >= instead of >
SqlTurnGe(md, cutoff) ==
    LET t == IF "turn_number" \in DOMAIN md THEN md.turn_number ELSE 0
    IN IF t >= cutoff THEN "true" ELSE "false"

\* the comparison without COALESCE: a missing turn_number compares as NULL
SqlTurnGtNoDefault(md, cutoff) ==
    IF "turn_number" \in DOMAIN md
    THEN (IF md.turn_number > cutoff THEN "true" ELSE "false")
    ELSE "null"

\* COALESCE((metadata->>'turn_number')::int, 0) > %s
SqlTurnGt(md, cutoff) ==
    LET t == IF "turn_number" \in DOMAIN md THEN md.turn_number ELSE 0
    IN IF t > cutoff THEN "true" ELSE "false"

SqlAnd(a, b) ==
    IF a = "false" \/ b = "false" THEN "false"
    ELSE IF a = "null" \/ b = "null" THEN "null"
    ELSE "true"

SqlNot(a) == IF a = "true" THEN "false" ELSE IF a = "false" THEN "true" ELSE "null"

\* WHERE NOT (metadata->>'conversation_id' = %s AND COALESCE(...) > %s)
ExclusionClause(md, conv, cutoff) ==
    SqlNot(SqlAnd(SqlConvEq(md, conv), SqlTurnGt(md, cutoff)))

\* a row passes WHERE only when the clause is true (not false, not null)
PassesWhere(md, conv, cutoff) == ExclusionClause(md, conv, cutoff) = "true"

Reverse(s) == [i \in DOMAIN s |-> s[Len(s) + 1 - i]]

\* rows that tie on the ORDER BY key come in an order SQL leaves open:
\* physical order, or its reverse
TieOrder(rows, tie) == IF tie = "reverse" THEN Reverse(rows) ELSE rows

\* 1 - (embedding <=> q): the cosine similarity, in thousandths
Similarity(row, q) == 10 * Dot(row.embedding, q)

\* ORDER BY key DESC over rows paired with their key
OrderByKey(keyed, tie) ==
    LET sorted == SortKeyed(TieOrder(keyed, tie))
    IN [i \in DOMAIN sorted |-> sorted[i].val]

\* a row whose embedding column is NULL
NullEmb == << >>

\* ORDER BY embedding <=> q is ascending with NULLS LAST: a NULL distance
\* sorts as a similarity below every real one
NullsLast == 0 - ScoreOne - 1

\* _vector_search: the rows the vector query returns; null_sim marks a row
\* whose similarity column is NULL
_vector_search(st, q, exclude_conv_id, exclude_turn, limit, tie) ==
    LET Keep(row) == PassesWhere(row.metadata, exclude_conv_id, exclude_turn)
        Sim(row) == IF row.embedding = NullEmb THEN NullsLast ELSE Similarity(row, q)
        kept == SelectSeq(st, Keep)
        keyed == [i \in DOMAIN kept |-> [key |-> Sim(kept[i]), val |-> kept[i]]]
        ordered == OrderByKey(keyed, tie)
        rows == Take(ordered, limit)
    IN [i \in DOMAIN rows |->
          [id |-> rows[i].id, similarity |-> Sim(rows[i]),
           null_sim |-> rows[i].embedding = NullEmb,
           content_emb |-> rows[i].content_emb,
           ts_ok |-> rows[i].ts_ok, age |-> rows[i].age]]

\* _keyword_search: the rows the full-text query returns
_keyword_search(st, exclude_conv_id, exclude_turn, limit, tie) ==
    LET Keep(row) ==
            row.matches /\ PassesWhere(row.metadata, exclude_conv_id, exclude_turn)
        Rank(row) == row.rank
        kept == SelectSeq(st, Keep)
        keyed == [i \in DOMAIN kept |-> [key |-> Rank(kept[i]), val |-> kept[i]]]
        ordered == OrderByKey(keyed, tie)
        rows == Take(ordered, limit)
    IN [i \in DOMAIN rows |->
          [id |-> rows[i].id, rank |-> rows[i].rank,
           content_emb |-> rows[i].content_emb,
           ts_ok |-> rows[i].ts_ok, age |-> rows[i].age]]

-----------------------------------------------------------------------------
(* Fusion.  A Document is                                                    *)
(*   [id, score, source, content_emb, ts_ok, age, time_boost]                *)
(* time_boost = 0 stands for a metadata dict without the key.                *)

RowIds(rows) == {rows[i].id : i \in DOMAIN rows}

\* the rescaling without the clamp
KeywordScoreUnclamped(rank) == (rank * 10) \div 3

\* min(float(row['rank']) / 0.3, 1.0)
KeywordScore(rank) == Min2((rank * 10) \div 3, ScoreOne)

VectorDoc(row) ==
    [id |-> row.id, score |-> row.similarity, source |-> "vector",
     content_emb |-> row.content_emb, ts_ok |-> row.ts_ok, age |-> row.age,
     time_boost |-> 0]

KeywordDoc(row) ==
    [id |-> row.id, score |-> KeywordScore(row.rank), source |-> "keyword",
     content_emb |-> row.content_emb, ts_ok |-> row.ts_ok, age |-> row.age,
     time_boost |-> 0]

\* a loop that appends every document, seen or not
MergeLoopNoSeen(docs, seen_ids, merged_docs) ==
    [docs |-> merged_docs \o docs, seen |-> seen_ids \cup RowIds(docs)]

\* one loop of _merge_results over the documents built from the rows:
\* append those whose id is not in seen_ids
RECURSIVE MergeLoop(_, _, _)
MergeLoop(docs, seen_ids, merged_docs) ==
    IF docs = << >> THEN [docs |-> merged_docs, seen |-> seen_ids]
    ELSE IF Head(docs).id \notin seen_ids
         THEN MergeLoop(Tail(docs), seen_ids \cup {Head(docs).id},
                        Append(merged_docs, Head(docs)))
         ELSE MergeLoop(Tail(docs), seen_ids, merged_docs)

\* the two loops in the other order: an id in both lists keeps its keyword entry
MergeKeywordFirst(vector_results, keyword_results) ==
    LET vdocs == [i \in DOMAIN vector_results |-> VectorDoc(vector_results[i])]
        kdocs == [i \in DOMAIN keyword_results |-> KeywordDoc(keyword_results[i])]
        k == MergeLoop(kdocs, {}, << >>)
        v == MergeLoop(vdocs, k.seen, k.docs)
    IN SortByScoreDesc(v.docs)

_merge_results(vector_results, keyword_results) ==
    LET vdocs == [i \in DOMAIN vector_results |-> VectorDoc(vector_results[i])]
        kdocs == [i \in DOMAIN keyword_results |-> KeywordDoc(keyword_results[i])]
        v == MergeLoop(vdocs, {}, << >>)
        k == MergeLoop(kdocs, v.seen, v.docs)
    IN SortByScoreDesc(k.docs)

-----------------------------------------------------------------------------
(* Recency re-weighting *)

\* the tiers with < for <=: both boundaries fall in the older tier
BoostStrict(age, recency_days) ==
    IF age < recency_days THEN BoostRecent
    ELSE IF age < MonthDays THEN BoostMonth
    ELSE BoostNone

\* the if / elif / else of _apply_time_weighting, in tenths
Boost(age, recency_days) ==
    IF age <= recency_days THEN BoostRecent
    ELSE IF age <= MonthDays THEN BoostMonth
    ELSE BoostNone

\* doc.metadata['score'] *= boost, skipped when the timestamp does not parse
WeightDoc(doc, recency_days) ==
    IF doc.ts_ok
    THEN [doc EXCEPT !.score = (doc.score * Boost(doc.age, recency_days)) \div 10,
                     !.time_boost = Boost(doc.age, recency_days)]
    ELSE doc

\* the try around the whole loop: one unparsable timestamp leaves every boost out
WeightAllOrNothing(documents, recency_days) ==
    IF \A i \in DOMAIN documents : documents[i].ts_ok
    THEN SortByScoreDesc([i \in DOMAIN documents |->
                              WeightDoc(documents[i], recency_days)])
    ELSE SortByScoreDesc(documents)

_apply_time_weighting(documents, recency_days) ==
    SortByScoreDesc([i \in DOMAIN documents |-> WeightDoc(documents[i], recency_days)])

-----------------------------------------------------------------------------
(* Diversity selection *)

\* the position in idxs of the first index that maximises val: np.argmax,
\* and max(mmr_scores, key=...) over a list in that order
FirstMaxPos(idxs, val) ==
    CHOOSE p \in DOMAIN idxs :
        /\ \A r \in DOMAIN idxs : val[idxs[r]] <= val[idxs[p]]
        /\ \A r \in DOMAIN idxs : r < p => val[idxs[r]] < val[idxs[p]]

\* list.remove(x) of an element that occurs once
Remove(idxs, x) == SelectSeq(idxs, LAMBDA i : i # x)

MaxOf(S) == CHOOSE m \in S : \A x \in S : x <= m

\* the penalty added instead of subtracted
MmrScoresPlus(selected_indices, doc_embeddings, similarities, diversity) ==
    [idx \in DOMAIN doc_embeddings |->
        LET redundancy ==
                MaxOf({Dot(doc_embeddings[idx], doc_embeddings[selected_indices[j]]) :
                          j \in DOMAIN selected_indices})
        IN (10 - diversity) * similarities[idx] + diversity * redundancy]

\* mmr = (1 - diversity) * relevance - diversity * redundancy, for every
\* remaining index; redundancy is the largest dot product with a selected one
MmrScores(selected_indices, doc_embeddings, similarities, diversity) ==
    [idx \in DOMAIN doc_embeddings |->
        LET redundancy ==
                MaxOf({Dot(doc_embeddings[idx], doc_embeddings[selected_indices[j]]) :
                          j \in DOMAIN selected_indices})
        IN (10 - diversity) * similarities[idx] - diversity * redundancy]

\* while len(selected_indices) < k and remaining_indices
RECURSIVE MmrLoop(_, _, _, _, _, _)
MmrLoop(selected_indices, remaining_indices, doc_embeddings, similarities, k, diversity) ==
    IF Len(selected_indices) < k /\ remaining_indices # << >>
    THEN LET mmr == MmrScores(selected_indices, doc_embeddings, similarities, diversity)
             best_idx == remaining_indices[FirstMaxPos(remaining_indices, mmr)]
         IN MmrLoop(Append(selected_indices, best_idx),
                    Remove(remaining_indices, best_idx),
                    doc_embeddings, similarities, k, diversity)
    ELSE selected_indices

\* a selection seeded with the head of the score-sorted pool, not the argmax
MmrIndicesFromTop(documents, query_embedding, k, diversity) ==
    LET doc_embeddings == [i \in DOMAIN documents |-> documents[i].content_emb]
        similarities == [i \in DOMAIN documents |-> Dot(query_embedding, doc_embeddings[i])]
        all == [i \in DOMAIN documents |-> i]
    IN MmrLoop(<<1>>, Remove(all, 1), doc_embeddings, similarities, k, diversity)

\* the indices _mmr_select picks, in selection order (len(documents) > k)
MmrIndices(documents, query_embedding, k, diversity) ==
    LET doc_embeddings == [i \in DOMAIN documents |-> documents[i].content_emb]
        similarities == [i \in DOMAIN documents |-> Dot(query_embedding, doc_embeddings[i])]
        all == [i \in DOMAIN documents |-> i]
        best_idx == all[FirstMaxPos(all, similarities)]
    IN MmrLoop(<<best_idx>>, Remove(all, best_idx),
               doc_embeddings, similarities, k, diversity)

_mmr_select(documents, query_embedding, k, diversity) ==
    IF Len(documents) <= k THEN documents
    ELSE LET sel == MmrIndices(documents, query_embedding, k, diversity)
         IN [j \in DOMAIN sel |-> documents[sel[j]]]

\* the embed_query calls _mmr_select makes for documents
MmrEmbedCalls(documents, k) == IF Len(documents) <= k THEN 0 ELSE Len(documents)

-----------------------------------------------------------------------------
(* The orchestrator.  A call is                                              *)
(*   [conversation_id, turn_number, top_k_given, top_k, query_embedding,     *)
(*    fail, tie]                                                             *)
(* fail names the step of the environment that raises during the call:       *)
(*   "secrets"        every read of st.secrets raises                        *)
(*   "embedder"       get_embeddings() raises (the model cannot be loaded)   *)
(*   "store"          every store call raises                                *)
(*   "vector"         the vector query raises                                *)
(*   "keyword"        the full-text query raises                             *)
(*   "recency_cfg"    RECENCY_BOOST_DAYS is not an integer                   *)
(*   "diversity_cfg"  MMR_DIVERSITY is not a number                          *)
(* The outcome records what the call returned and what it did on the way.    *)

Outcome(status, docs, failed, vector_rows, keyword_rows, merged, pool, mmr_ran, doc_embeds) ==
    [status |-> status, docs |-> docs, failed |-> failed,
     vector_rows |-> vector_rows, keyword_rows |-> keyword_rows,
     merged |-> merged, pool |-> pool, mmr_ran |-> mmr_ran, doc_embeds |-> doc_embeds]

NoCalls == [embed_query |-> 0, vector_search |-> 0, keyword_search |-> 0]

Pending ==
    Outcome("pending", << >>, FALSE, << >>, << >>, << >>, << >>, FALSE, 0)
        @@ [calls |-> NoCalls]

\* the exception leaves hybrid_retrieve
Raised == Outcome("raised", << >>, TRUE, << >>, << >>, << >>, << >>, FALSE, 0)

\* a bare raise in the handler: the exception is passed on
CaughtReraise(vector_rows, keyword_rows, merged, pool) == Raised

\* except Exception: return []
Caught(vector_rows, keyword_rows, merged, pool) ==
    Outcome("returned", << >>, TRUE, vector_rows, keyword_rows, merged, pool, FALSE, 0)

\* np.zeros(self.dimension): what embed_query returns when model.encode raises
ZeroEmb == <<0, 0>>

\* LocalEmbeddings.embed_query: the encoding of the query text, or the zero
\* vector when model.encode raises (the except returns it, nothing is raised).
\* Against a zero vector every cosine distance is NaN, so all rows tie in the
\* ORDER BY and in the later sorts; the model writes their similarity as 0.
embed_query(rq) == IF rq.fail = "encode" THEN ZeroEmb ELSE rq.query_embedding

\* top_k, read from the configuration when the caller omits it
EffectiveTopK(cf, rq) == IF rq.top_k_given THEN rq.top_k ELSE cf.RETRIEVAL_TOP_K

\* the statement of hybrid_retrieve at which the call is cut short, in source
\* order: 1 the read of RETRIEVAL_TOP_K, 2 get_embeddings(), 3 embed_query(query),
\* 4 the reads of the three limits, 5 _vector_search, 6 _keyword_search,
\* 7 nothing up to and including the searches
FailStage(rq) ==
    IF rq.fail = "secrets" THEN (IF rq.top_k_given THEN 4 ELSE 1)
    ELSE IF rq.fail = "embedder" THEN 2
    ELSE IF rq.fail \in {"store", "vector"} THEN 5
    ELSE IF rq.fail = "keyword" THEN 6
    ELSE 7

\* a handler that runs the failed search a second time before giving up
AttemptsWithRetry(rq) ==
    LET f == FailStage(rq)
    IN [embed_query |-> IF f >= 3 THEN 1 ELSE 0,
        vector_search |-> IF f = 5 THEN 2 ELSE IF f > 5 THEN 1 ELSE 0,
        keyword_search |-> IF f = 6 THEN 2 ELSE IF f > 6 THEN 1 ELSE 0]

\* how often each stage is called: once when control reaches its statement
\* (lines 35, 45 and 53 are straight-line code), never after the except
Attempts(rq) ==
    LET f == FailStage(rq)
    IN [embed_query |-> IF f >= 3 THEN 1 ELSE 0,
        vector_search |-> IF f >= 5 THEN 1 ELSE 0,
        keyword_search |-> IF f >= 6 THEN 1 ELSE 0]

\* the try block of hybrid_retrieve and its except
Pipeline(st, cf, rq) ==
    LET top_k == EffectiveTopK(cf, rq)
        query_embedding == embed_query(rq)
        session_cutoff == rq.turn_number - cf.SESSION_HISTORY_LIMIT
        vector_results ==
            _vector_search(st, query_embedding, rq.conversation_id,
                           session_cutoff, cf.VECTOR_SEARCH_K, rq.tie)
        keyword_results ==
            _keyword_search(st, rq.conversation_id, session_cutoff,
                            cf.KEYWORD_SEARCH_K, rq.tie)
        merged == _merge_results(vector_results, keyword_results)
        weighted == _apply_time_weighting(merged, cf.RECENCY_BOOST_DAYS)
    IN  IF ~rq.top_k_given /\ rq.fail = "secrets" THEN Raised
        ELSE IF rq.fail \in {"embedder", "secrets"} THEN Caught(<< >>, << >>, << >>, << >>)
        ELSE IF rq.fail \in {"store", "vector"} THEN Caught(<< >>, << >>, << >>, << >>)
        ELSE IF rq.fail = "keyword" THEN Caught(vector_results, << >>, << >>, << >>)
        ELSE IF \E i \in DOMAIN vector_results : vector_results[i].null_sim
        THEN Caught(vector_results, keyword_results, << >>, << >>)  \* float(None)
        ELSE IF rq.fail = "recency_cfg"
        THEN Caught(vector_results, keyword_results, merged, << >>)
        ELSE IF Len(weighted) > top_k
        THEN IF rq.fail = "diversity_cfg"
             THEN Caught(vector_results, keyword_results, merged, weighted)
             ELSE Outcome("returned",
                          _mmr_select(weighted, query_embedding, top_k, cf.MMR_DIVERSITY),
                          FALSE, vector_results, keyword_results, merged, weighted, TRUE,
                          MmrEmbedCalls(weighted, top_k))
        ELSE Outcome("returned", Slice(weighted, top_k), FALSE,
                     vector_results, keyword_results, merged, weighted, FALSE, 0)

hybrid_retrieve(st, cf, rq) == Pipeline(st, cf, rq) @@ [calls |-> Attempts(rq)]

-----------------------------------------------------------------------------
(* Inputs *)

ConvIds == {"c1", "c2"}

\* the metadata objects of stored rows: either key may be missing
MetaSet ==
    {[conversation_id |-> c, turn_number |-> t] : c \in ConvIds, t \in 0..MaxTurn}
    \cup {[conversation_id |-> c, topics |-> "none"] : c \in ConvIds}
    \cup {[turn_number |-> t, topics |-> "none"] : t \in 0..MaxTurn}
    \cup {[topics |-> "none"]}

OtherMeta == [conversation_id |-> "c2", turn_number |-> 0]

QueryEmb == <<10, 0>>

\* unit vectors, in tenths, by row id
EmbOf(i) == IF i % 3 = 1 THEN <<8, 6>> ELSE IF i % 3 = 2 THEN <<6, 8>> ELSE <<0, 10>>

Row(i, md, emb, kw, ts) ==
    [id |-> i, metadata |-> md, embedding |-> emb, content_emb |-> emb,
     matches |-> kw.matches, rank |-> kw.rank, ts_ok |-> ts.ts_ok, age |-> ts.age]

NoMatch == [matches |-> FALSE, rank |-> 0]
Match(r) == [matches |-> TRUE, rank |-> r]
KwSet == {NoMatch, Match(150), Match(600)}
KwOf(i) == IF i % 2 = 1 THEN Match(150) ELSE NoMatch

Aged(d) == [ts_ok |-> TRUE, age |-> d]
BadTs == [ts_ok |-> FALSE, age |-> 0]
AgeSet == {7, 8, 30, 31, 50}

DefaultCfg ==
    [RETRIEVAL_TOP_K |-> DefaultTopK, SESSION_HISTORY_LIMIT |-> DefaultSessionLimit,
     VECTOR_SEARCH_K |-> DefaultVectorK, KEYWORD_SEARCH_K |-> DefaultKeywordK,
     MMR_DIVERSITY |-> DefaultDiversity, RECENCY_BOOST_DAYS |-> DefaultRecencyDays]

Call(conv, turn, given, k, fail, tie) ==
    [conversation_id |-> conv, turn_number |-> turn, top_k_given |-> given,
     top_k |-> k, query_embedding |-> QueryEmb, fail |-> fail, tie |-> tie]

FailSet == {"none", "secrets", "embedder", "encode", "store", "vector", "keyword",
            "recency_cfg", "diversity_cfg"}

\* stores whose rows differ in their metadata
InitTags ==
    /\ \E mds \in [1..TagRecords -> MetaSet] :
          store = [i \in 1..TagRecords |-> Row(i, mds[i], EmbOf(i), KwOf(i), Aged(50))]
    /\ \E limit \in {1, DefaultSessionLimit} :
          cfg = [DefaultCfg EXCEPT !.SESSION_HISTORY_LIMIT = limit]
    /\ \E turn \in 0..(MaxTurn + 1) :
          req = Call("c1", turn, FALSE, 0, "none", "physical")

\* stores whose rows differ in their embedding and their timestamp
InitAges ==
    /\ \E embs \in [1..AgeRecords -> {<<8, 6>>, <<-6, 8>>}],
          tss \in [1..AgeRecords -> {BadTs} \cup {Aged(d) : d \in AgeSet}] :
          store = [i \in 1..AgeRecords |-> Row(i, OtherMeta, embs[i], NoMatch, tss[i])]
    /\ \E days \in {DefaultRecencyDays, 45} :
          cfg = [DefaultCfg EXCEPT !.RECENCY_BOOST_DAYS = days]
    /\ \E tie \in {"physical", "reverse"} :
          req = Call("c1", 1, FALSE, 0, "none", tie)

\* stores whose rows differ in their similarity, keyword match and age,
\* searched with a vector limit that may cut the vector results
InitPool ==
    /\ \E embs \in [1..PoolRecords -> {<<8, 6>>, <<6, 8>>}],
          kws \in [1..PoolRecords -> KwSet],
          tss \in [1..PoolRecords -> {Aged(7), Aged(50)}] :
          store = [i \in 1..PoolRecords |-> Row(i, OtherMeta, embs[i], kws[i], tss[i])]
    /\ \E vk \in {2, DefaultVectorK} :
          cfg = [DefaultCfg EXCEPT !.VECTOR_SEARCH_K = vk]
    /\ \E k \in 0..MaxTopK :
          req = Call("c1", 1, TRUE, k, "none", "physical")

\* calls during which a step of the environment raises
InitFaults ==
    /\ \E kws \in [1..TagRecords -> {NoMatch, Match(600)}] :
          store = [i \in 1..TagRecords |-> Row(i, OtherMeta, EmbOf(i), kws[i], Aged(7))]
    /\ cfg = DefaultCfg
    /\ \E fail \in FailSet, given \in BOOLEAN, k \in 0..MaxTopK :
          /\ ~given => k = 0
          /\ req = Call("c1", 1, given, k, fail, "physical")

\* stores whose rows differ in their direction, selected under several
\* MMR_DIVERSITY settings (in tenths)
InitMmr ==
    /\ \E embs \in [1..PoolRecords -> {<<10, 0>>, <<8, 6>>, <<6, 8>>}] :
          store = [i \in 1..PoolRecords |-> Row(i, OtherMeta, embs[i], NoMatch, Aged(50))]
    /\ \E diversity \in {0, DefaultDiversity, 10} :
          cfg = [DefaultCfg EXCEPT !.MMR_DIVERSITY = diversity]
    /\ \E k \in 0..MaxTopK :
          req = Call("c1", 1, TRUE, k, "none", "physical")

\* str(uuid4()): the n-th identifier drawn in a run
Uuid(n) == <<"c1", "c2", "c3", "c4", "c5">>[n]

\* init_session_state: a fresh conversation id, turn 0, no messages, no
\* costs; uuids counts the identifiers drawn so far
init_session_state ==
    [conversation_id |-> Uuid(1), turn_number |-> 0, messages |-> << >>, uuids |-> 1,
     voice_cost |-> 0, grok_cost |-> 0]

\* the parts of the state a specification does not use, at rest
Untouched ==
    /\ shown = "none"
    /\ ret = [called |-> FALSE, id |-> 0]
    /\ job = "idle"
    /\ conns = "closed"
    /\ digest = "none"

Init ==
    /\ InitTags \/ InitAges \/ InitPool \/ InitFaults \/ InitMmr
    /\ out = Pending
    /\ session = init_session_state
    /\ Untouched

\* one call of hybrid_retrieve
Retrieve ==
    /\ out.status = "pending"
    /\ out' = hybrid_retrieve(store, cfg, req)
    /\ UNCHANGED <<store, cfg, req, session, shown, ret, background>>

Next == Retrieve

Spec == Init /\ [][Next]_vars

-----------------------------------------------------------------------------
(* The chat application (second_brain.py) over the same store.  A message is *)
(* its role; the n-th inserted row gets id n, created_at = now (age 0), the  *)
(* embedding and keyword match that EmbOf and KwOf give to its id, and the   *)
(* saved messages as its full_transcript.                                    *)

\* metadata=None
NoMetadata == << >>

\* the dict save_conversation builds, updated with the caller's metadata
conv_metadata(messages, conversation_id, metadata) ==
    metadata @@
    [conversation_id |-> conversation_id, start_time |-> "now", end_time |-> "now",
     turn_count |-> Len(messages), total_tokens |-> 0, topics |-> << >>,
     participants |-> <<"user", "claude">>]

\* what can go wrong inside the try of save_conversation: _format_transcript
\* raises, get_embeddings() raises, model.encode raises (embed_query then
\* returns the zero vector), the INSERT or its commit raises
SaveFailSet == {"none", "format", "embedder", "encode", "insert"}

\* save_conversation: the rows it inserts.  None when there are no messages or
\* when a step raises into the except; a row with the zero vector when only
\* model.encode failed.
save_conversation(st, messages, conversation_id, metadata, fail) ==
    IF messages = << >> \/ fail \in {"format", "embedder", "insert"} THEN << >>
    ELSE <<Row(Len(st) + 1, conv_metadata(messages, conversation_id, metadata),
               IF fail = "encode" THEN ZeroEmb ELSE EmbOf(Len(st) + 1),
               KwOf(Len(st) + 1), Aged(0))
             @@ [full_transcript |-> messages]>>

\* the return value of the last save_conversation call: id = 0 stands for None
NotCalled == [called |-> FALSE, id |-> 0]
ReturnedNone == [called |-> TRUE, id |-> 0]

\* what save_conversation returns: str(result_id) of the inserted row, or None
save_returns(st, messages, conversation_id, metadata, fail) ==
    LET rows == save_conversation(st, messages, conversation_id, metadata, fail)
    IN IF rows = << >> THEN ReturnedNone ELSE [called |-> TRUE, id |-> rows[1].id]

\* the rows of the store that the application wrote
SavedRows(st) == SelectSeq(st, LAMBDA row : "full_transcript" \in DOMAIN row)

\* if prompt: one chat turn.  The steps around the retrieval (hybrid_query,
\* the model call) may raise before the assistant message is appended; the
\* request may have come by voice and may have used Grok.
Prompt ==
    /\ session.turn_number < MaxPrompts
    /\ \E answered \in BOOLEAN,
          voice \in 0..Min2(1, MaxCost - session.voice_cost),
          grok \in 0..Min2(1, MaxCost - session.grok_cost) :
          LET turn_number == session.turn_number + 1
              call == Call(session.conversation_id, turn_number, FALSE, 0, "none", "physical")
              messages == Append(session.messages, "user")
          IN /\ req' = call
             /\ out' = hybrid_retrieve(store, cfg, call)
             /\ session' = [session EXCEPT
                                !.turn_number = turn_number,
                                !.messages = IF answered THEN Append(messages, "assistant")
                                             ELSE messages,
                                !.voice_cost = @ + voice,
                                !.grok_cost = @ + grok]
    /\ shown' = "none"
    /\ UNCHANGED <<store, cfg, ret, background>>

\* a reset that forgets the turn counter
ResetKeepsTurn(s) ==
    [s EXCEPT !.conversation_id = Uuid(s.uuids + 1),
              !.messages = << >>,
              !.uuids = s.uuids + 1]

\* "Reset for new chat": messages, conversation_id and turn_number are set
\* anew, voice_cost and grok_cost keep their running totals
reset_session(s) ==
    [s EXCEPT !.conversation_id = Uuid(s.uuids + 1),
              !.turn_number = 0,
              !.messages = << >>,
              !.uuids = s.uuids + 1]

\* the Save button: st.success after the call, st.warning without messages
SaveButton ==
    /\ Len(SavedRows(store)) < MaxSaved
    /\ \E fail \in {"none", "insert"} :
          IF session.messages # << >>
          THEN /\ store' = store \o save_conversation(store, session.messages,
                                     session.conversation_id, NoMetadata, fail)
               /\ ret' = save_returns(store, session.messages,
                                      session.conversation_id, NoMetadata, fail)
               /\ shown' = "saved"
          ELSE /\ shown' = "nothing to save"
               /\ UNCHANGED <<store, ret>>
    /\ UNCHANGED <<cfg, req, out, session, background>>

\* the New Chat button: save when there are messages, then reset the session.
\* save_conversation does not raise, so st.success follows every call and the
\* st.warning of the except branch is never shown.
NewChatButton ==
    /\ session.uuids <= MaxChats
    /\ Len(SavedRows(store)) < MaxSaved
    /\ \E fail \in {"none", "insert"} :
          IF session.messages # << >>
          THEN /\ store' = store \o save_conversation(store, session.messages,
                                     session.conversation_id, NoMetadata, fail)
               /\ ret' = save_returns(store, session.messages,
                                      session.conversation_id, NoMetadata, fail)
               /\ shown' = "saved to memory"
          ELSE /\ shown' = "none"
               /\ UNCHANGED <<store, ret>>
    /\ session' = reset_session(session)
    /\ UNCHANGED <<cfg, req, out, background>>

InitApp ==
    /\ store = << >>
    /\ \E limit \in {2, DefaultSessionLimit} :
          cfg = [DefaultCfg EXCEPT !.SESSION_HISTORY_LIMIT = limit]
    /\ req = Call(Uuid(1), 0, FALSE, 0, "none", "physical")
    /\ out = Pending
    /\ session = init_session_state
    /\ Untouched

NextApp == Prompt \/ SaveButton \/ NewChatButton

SpecApp == InitApp /\ [][NextApp]_vars

-----------------------------------------------------------------------------
(* One call of save_conversation, with its arguments and the step that fails *)
(* drawn by Init; req holds them, with the number of rows before the call.   *)

SaveCall ==
    /\ ~ret.called
    /\ store' = store \o save_conversation(store, req.messages, req.conversation_id,
                                            req.metadata, req.fail)
    /\ ret' = save_returns(store, req.messages, req.conversation_id,
                           req.metadata, req.fail)
    /\ UNCHANGED <<cfg, req, out, session, shown, background>>

InitSave ==
    /\ \E n \in 0..MaxSaved :
          store = [i \in 1..n |-> Row(i, OtherMeta, EmbOf(i), KwOf(i), Aged(7))]
    /\ \E messages \in {<< >>, <<"user">>, <<"user", "assistant">>},
          conversation_id \in ConvIds,
          metadata \in {NoMetadata, [turn_number |-> 1]},
          fail \in SaveFailSet :
          req = [messages |-> messages, conversation_id |-> conversation_id,
                 metadata |-> metadata, fail |-> fail, rows_before |-> Len(store)]
    /\ cfg = DefaultCfg
    /\ out = Pending
    /\ session = init_session_state
    /\ shown = "none"
    /\ ret = NotCalled
    /\ job = "idle" /\ conns = "closed" /\ digest = "none"

NextSave == SaveCall

SpecSave == InitSave /\ [][NextSave]_vars

-----------------------------------------------------------------------------
(* The re-embedding job (reembed_all.py) next to saves and retrievals, over  *)
(* a store that already holds rows written by an earlier version: their      *)
(* embedding is NULL or comes from an older model, so it differs from what   *)
(* the current model gives for the transcript (content_emb).                 *)

\* a job that has a working UPDATE and no WHERE embedding IS NULL
ReembedEveryRow(st) ==
    [store |-> [i \in DOMAIN st |-> [st[i] EXCEPT !.embedding = st[i].content_emb]],
     status |-> "complete"]

\* reembed_all.main: it selects the rows WHERE embedding IS NULL and, for the
\* first of them, calls db.execute, which DatabaseManager does not define: the
\* AttributeError ends the job before any UPDATE is sent
reembed_all(st) ==
    LET rows == SelectSeq(st, LAMBDA row : row.embedding = NullEmb)
    IN IF rows = << >> THEN [store |-> st, status |-> "complete"]
       ELSE [store |-> st, status |-> "crashed"]

ReembedJob ==
    /\ store' = reembed_all(store).store
    /\ job' = reembed_all(store).status
    /\ UNCHANGED <<cfg, req, out, session, shown, ret, conns, digest>>

LegacyRow(i, emb) ==
    [Row(i, OtherMeta, emb, KwOf(i), Aged(50)) EXCEPT !.content_emb = EmbOf(i)]

\* a save_conversation call of some session
SaveAny ==
    /\ Len(SavedRows(store)) < MaxSaved
    /\ \E messages \in {<<"user">>, <<"user", "assistant">>},
          conversation_id \in ConvIds, fail \in {"none", "insert"} :
          /\ store' = store \o save_conversation(store, messages, conversation_id,
                                                  NoMetadata, fail)
          /\ ret' = save_returns(store, messages, conversation_id, NoMetadata, fail)
    /\ UNCHANGED <<cfg, req, out, session, shown, background>>

\* a hybrid_retrieve call of some session
RetrieveAny ==
    /\ \E conversation_id \in ConvIds, turn_number \in 1..(MaxTurn + 1) :
          LET call == Call(conversation_id, turn_number, FALSE, 0, "none", "physical")
          IN /\ req' = call
             /\ out' = hybrid_retrieve(store, cfg, call)
    /\ UNCHANGED <<store, cfg, session, shown, ret, background>>

InitJob ==
    /\ \E n \in 0..LegacyRows :
          \E embs \in [1..n -> {NullEmb, <<6, 8>>, <<0, 10>>}] :
              store = [i \in 1..n |-> LegacyRow(i, embs[i])]
    /\ cfg = DefaultCfg
    /\ req = Call(Uuid(1), 0, FALSE, 0, "none", "physical")
    /\ out = Pending
    /\ session = init_session_state
    /\ Untouched

NextJob == SaveAny \/ RetrieveAny \/ ReembedJob

SpecJob == InitJob /\ [][NextJob]_vars

-----------------------------------------------------------------------------
(* The connection pool (db_manager.py).  One DatabaseManager, cached by      *)
(* st.cache_resource, serves every session: its pool hands out at most       *)
(* MaxConn connections and getconn raises PoolError, a psycopg2.Error, when   *)
(* all of them are checked out.  Callers threads are followed through the    *)
(* with-block of get_connection step by step; the other sessions are counted *)
(* while they are inside a query.  lines 60-66 of get_connection are         *)
(* indented as the except clause of the try they follow.                     *)

\* a thread outside any with-block, before its first one
AtRest ==
    [pc |-> "out", conn |-> FALSE, tx |-> "idle", closed |-> FALSE,
     raising |-> "none", puts |-> 0, tx_at_put |-> "none"]

\* a putconn that follows the commit instead of standing in the finally
FinallyOnSuccessOnly(c) == c.conn /\ c.raising = "none"

\* finally: if conn: self._pool.putconn(conn)
finally_returns(c) == c.conn

\* the pool has no connection left to hand out
Exhausted == conns.used = MaxConn

\* conn = None; try: conn = self._pool.getconn()
Enter(t) ==
    /\ conns.callers[t].pc = "out"
    /\ conns' = IF Exhausted
                THEN [conns EXCEPT !.callers[t] =
                         [AtRest EXCEPT !.pc = "except", !.raising = "db"]]
                ELSE [conns EXCEPT !.used = @ + 1,
                                   !.callers[t] =
                                       [AtRest EXCEPT !.pc = "body", !.conn = TRUE]]
    /\ UNCHANGED <<store, cfg, req, out, session, shown, ret, job, digest>>

\* the with-block: it ends normally after its statement opened a transaction,
\* or a statement raises a psycopg2.Error (the transaction failed, or the
\* connection was lost), or some step raises another exception before or
\* after the statement was executed
Body(t) ==
    /\ conns.callers[t].pc = "body"
    /\ \E exit \in {"normal", "db", "lost", "other early", "other late"} :
          conns' = [conns EXCEPT !.callers[t] =
              IF exit = "normal" THEN [@ EXCEPT !.pc = "commit", !.tx = "open"]
              ELSE IF exit = "db"
                  THEN [@ EXCEPT !.pc = "except", !.tx = "failed", !.raising = "db"]
              ELSE IF exit = "lost"
                  THEN [@ EXCEPT !.pc = "except", !.closed = TRUE, !.raising = "db"]
              ELSE IF exit = "other early"
                  THEN [@ EXCEPT !.pc = "finally", !.raising = "other"]
              ELSE [@ EXCEPT !.pc = "finally", !.tx = "open", !.raising = "other"]]
    /\ UNCHANGED <<store, cfg, req, out, session, shown, ret, job, digest>>

\* conn.commit(): it ends the transaction, or raises a psycopg2.Error because
\* the connection was lost
Commit(t) ==
    /\ conns.callers[t].pc = "commit"
    /\ \E ok \in BOOLEAN :
          conns' = [conns EXCEPT !.callers[t] =
              IF ok THEN [@ EXCEPT !.pc = "finally", !.tx = "idle"]
              ELSE [@ EXCEPT !.pc = "except", !.closed = TRUE, !.raising = "db"]]
    /\ UNCHANGED <<store, cfg, req, out, session, shown, ret, job, digest>>

\* except psycopg2.Error: roll back an open connection, then raise again
Except(t) ==
    /\ conns.callers[t].pc = "except"
    /\ conns' = [conns EXCEPT !.callers[t] =
          IF @.conn /\ ~@.closed THEN [@ EXCEPT !.pc = "finally", !.tx = "idle"]
          ELSE [@ EXCEPT !.pc = "finally"]]
    /\ UNCHANGED <<store, cfg, req, out, session, shown, ret, job, digest>>

\* finally: putconn, which itself rolls back a connection it receives inside
\* a transaction and drops a closed one; the exception in flight, if any,
\* then leaves the with-statement
Finally(t) ==
    /\ conns.callers[t].pc = "finally"
    /\ conns' = IF finally_returns(conns.callers[t])
                THEN [conns EXCEPT !.used = @ - 1,
                                   !.callers[t] = [@ EXCEPT !.pc = "out",
                                                            !.puts = @ + 1,
                                                            !.tx_at_put = conns.callers[t].tx,
                                                            !.tx = "idle"]]
                ELSE [conns EXCEPT !.callers[t] = [@ EXCEPT !.pc = "out"]]
    /\ UNCHANGED <<store, cfg, req, out, session, shown, ret, job, digest>>

\* another session enters execute_query and holds a connection
OtherEnter ==
    /\ conns.busy < OtherSessions
    /\ ~Exhausted
    /\ conns' = [conns EXCEPT !.used = @ + 1, !.busy = @ + 1]
    /\ UNCHANGED <<store, cfg, req, out, session, shown, ret, job, digest>>

\* another session leaves execute_query
OtherExit ==
    /\ conns.busy > 0
    /\ conns' = [conns EXCEPT !.used = @ - 1, !.busy = @ - 1]
    /\ UNCHANGED <<store, cfg, req, out, session, shown, ret, job, digest>>

\* a session calls hybrid_retrieve: _vector_search and _keyword_search each
\* take a connection in execute_query and return it; with the pool exhausted
\* getconn raises inside _vector_search
RetrieveShared ==
    /\ \E turn_number \in 1..(MaxTurn + 1) :
          LET call == Call("c1", turn_number, FALSE, 0, "none", "physical")
          IN /\ req' = call
             /\ out' = hybrid_retrieve(store, cfg,
                          [call EXCEPT !.fail = IF Exhausted THEN "vector" ELSE "none"])
    /\ UNCHANGED <<store, cfg, session, shown, ret, job, conns, digest>>

InitDb ==
    /\ store = [i \in 1..TagRecords |-> Row(i, OtherMeta, EmbOf(i), KwOf(i), Aged(7))]
    /\ cfg = DefaultCfg
    /\ req = Call("c1", 1, FALSE, 0, "none", "physical")
    /\ out = Pending
    /\ session = init_session_state
    /\ shown = "none"
    /\ ret = [called |-> FALSE, id |-> 0]
    /\ job = "idle"
    /\ conns = [used |-> 0, busy |-> 0, callers |-> [t \in 1..Callers |-> AtRest]]
    /\ digest = "none"

NextDb ==
    \/ \E t \in 1..Callers : Enter(t)
    \/ \E t \in 1..Callers : Body(t)
    \/ \E t \in 1..Callers : Commit(t)
    \/ \E t \in 1..Callers : Except(t)
    \/ \E t \in 1..Callers : Finally(t)
    \/ OtherEnter
    \/ OtherExit
    \/ RetrieveShared

SpecDb == InitDb /\ [][NextDb]_vars

-----------------------------------------------------------------------------
(* The weekly digest (insights_engine.py, check_and_generate_digest in       *)
(* second_brain.py).  Every page load of every session runs the check and,   *)
(* when it says so, generates and stores a digest.  Time is counted in hours *)
(* from a Monday 00:00 and advances in steps of six hours; a generation      *)
(* takes less than one step.                                                 *)

weekday(now) == (now \div 24) % 7
hour(now) == now % 24

\* (now - last_digest).days
days_since(now, last_digest) == (now - last_digest) \div 24

\* should_generate_weekly_digest: False unless it is Sunday at or after 18:00;
\* then True when no digest is stored.  With a digest stored, MAX(created_at)
\* comes back as a datetime and datetime.fromisoformat, which takes a str,
\* raises TypeError into the except: False
should_generate_weekly_digest(now, stored) ==
    IF weekday(now) # Sunday \/ hour(now) < DigestHour THEN FALSE
    ELSE IF stored # << >> THEN FALSE
    ELSE TRUE

\* a page load: check_and_generate_digest up to the call of
\* generate_weekly_digest
PageLoad(s) ==
    /\ digest.pc[s] = "idle"
    /\ should_generate_weekly_digest(digest.now, digest.stored)
    /\ digest' = [digest EXCEPT !.pc[s] = "generating"]
    /\ UNCHANGED <<store, cfg, req, out, session, shown, ret, job, conns>>

\* generate_weekly_digest: None when the week has no conversations or a step
\* raises, otherwise one row INSERTed with created_at = NOW()
Generate(s) ==
    /\ digest.pc[s] = "generating"
    /\ \E inserted \in BOOLEAN :
          digest' = [digest EXCEPT !.pc[s] = "idle",
                                   !.stored = IF inserted THEN Append(@, digest.now)
                                              ELSE @]
    /\ UNCHANGED <<store, cfg, req, out, session, shown, ret, job, conns>>

\* six hours pass while no generation is running
Tick ==
    /\ digest.now + 6 < MaxWeeks * 7 * 24
    /\ \A s \in 1..DigestSessions : digest.pc[s] = "idle"
    /\ digest' = [digest EXCEPT !.now = @ + 6]
    /\ UNCHANGED <<store, cfg, req, out, session, shown, ret, job, conns>>

InitDigest ==
    /\ store = << >>
    /\ cfg = DefaultCfg
    /\ req = Call("c1", 1, FALSE, 0, "none", "physical")
    /\ out = Pending
    /\ session = init_session_state
    /\ shown = "none"
    /\ ret = [called |-> FALSE, id |-> 0]
    /\ job = "idle"
    /\ conns = "closed"
    /\ digest = [now |-> 0, stored |-> << >>,
                 pc |-> [s \in 1..DigestSessions |-> "idle"]]

NextDigest ==
    \/ \E s \in 1..DigestSessions : PageLoad(s)
    \/ \E s \in 1..DigestSessions : Generate(s)
    \/ Tick

SpecDigest == InitDigest /\ [][NextDigest]_vars

-----------------------------------------------------------------------------
(* Properties of hybrid_retrieve *)

Returned == out.status = "returned"

\* the call ran to its end without an exception
Completed == out.status = "returned" /\ ~out.failed

CandidateIds == RowIds(out.vector_rows) \cup RowIds(out.keyword_rows)

\* C1: when every store call raises, hybrid_retrieve returns the empty list
\* and does not raise, whatever the arguments.
C1_GracefulDegradation ==
    (out.status # "pending" /\ req.fail = "store")
        => (out.status = "returned" /\ out.docs = << >>)

C1_Witness ==
    /\ out.status = "returned"
    /\ req.fail = "store"
    /\ req.top_k_given
    /\ \E i \in DOMAIN store : store[i].matches

\* C2: hybrid_retrieve never raises, also when top_k is omitted and read from
\* the configuration: every call returns a list, the empty one when a step failed.
C2_NeverRaises ==
    out.status # "pending"
        => (out.status = "returned" /\ (out.failed => out.docs = << >>))

\* C3: for every non-negative top_k the returned list has at most top_k
\* documents, and exactly min(top_k, number of distinct candidate ids).
C3_SizeBound ==
    (Completed /\ EffectiveTopK(cfg, req) >= 0)
        => /\ Len(out.docs) <= EffectiveTopK(cfg, req)
           /\ Len(out.docs) = Min2(EffectiveTopK(cfg, req), Cardinality(CandidateIds))

\* C4: no two documents of a returned list have the same record id, on the
\* short-circuit path and on the MMR path, whatever the two generators share.
C4_Deduplication ==
    Returned => \A i, j \in DOMAIN out.docs : i # j => out.docs[i].id # out.docs[j].id

C4_Witness ==
    /\ Returned
    /\ out.mmr_ran
    /\ Len(out.docs) >= 2
    /\ \E i \in DOMAIN out.docs :
          out.docs[i].id \in RowIds(out.vector_rows) \cap RowIds(out.keyword_rows)

\* the session cutoff of the call: turn_number - session_history_limit
Cutoff == req.turn_number - cfg.SESSION_HISTORY_LIMIT

\* the row carries both tags, and its conversation is the one retrieved for
TaggedCurrent(row) ==
    /\ "conversation_id" \in DOMAIN row.metadata
    /\ "turn_number" \in DOMAIN row.metadata
    /\ row.metadata.conversation_id = req.conversation_id

\* the row is tagged with another conversation, or with none
NotCurrent(row) ==
    \/ "conversation_id" \notin DOMAIN row.metadata
    \/ row.metadata.conversation_id # req.conversation_id

\* neither LIMIT cuts the rows of this store
VectorUncut == Len(store) <= cfg.VECTOR_SEARCH_K
KeywordUncut == Len(store) <= cfg.KEYWORD_SEARCH_K

InVector(row) == row.id \in RowIds(out.vector_rows)
InKeyword(row) == row.id \in RowIds(out.keyword_rows)

\* C5: a record tagged conversation_id = C and turn_number = T is excluded by
\* both generators of a retrieval for conversation C at turn N exactly when
\* T > N - session_history_limit, also when N - session_history_limit < 0.
C5_ExclusionCorrectness ==
    Completed =>
        \A i \in DOMAIN store :
            TaggedCurrent(store[i]) =>
                IF store[i].metadata.turn_number > Cutoff
                THEN ~InVector(store[i]) /\ ~InKeyword(store[i])
                ELSE /\ VectorUncut => InVector(store[i])
                     /\ (KeywordUncut /\ store[i].matches) => InKeyword(store[i])

C5_Witness ==
    /\ Completed
    /\ \E i, j \in DOMAIN store :
          /\ TaggedCurrent(store[i]) /\ store[i].metadata.turn_number > Cutoff
          /\ ~InVector(store[i])
          /\ TaggedCurrent(store[j]) /\ store[j].metadata.turn_number <= Cutoff
          /\ InVector(store[j]) /\ InKeyword(store[j])

\* C6: a record that is not tagged with the current conversation's id (another
\* id, or no conversation_id at all) is never removed by the exclusion
\* predicate of either generator, whatever its turn_number and the cutoff.
C6_OtherRecordsKept ==
    Completed =>
        \A i \in DOMAIN store :
            NotCurrent(store[i]) =>
                /\ VectorUncut => InVector(store[i])
                /\ (KeywordUncut /\ store[i].matches) => InKeyword(store[i])

SortedDesc(docs) ==
    \A i, j \in DOMAIN docs : i < j => docs[i].score >= docs[j].score

\* C7: when the fused and boosted pool has at most top_k documents, the call
\* returns exactly that pool, in descending order of boosted score, without
\* running MMR and without embedding any document.
C7_ShortCircuit ==
    (Completed /\ Len(out.pool) <= EffectiveTopK(cfg, req)) =>
        /\ out.docs = out.pool
        /\ RowIds(out.docs) = CandidateIds
        /\ SortedDesc(out.docs)
        /\ ~out.mmr_ran
        /\ out.doc_embeds = 0

C7_Witness ==
    /\ Completed
    /\ Len(out.pool) = EffectiveTopK(cfg, req)
    /\ Len(out.docs) >= 2
    /\ out.docs[1].score > out.docs[2].score
    /\ \E i \in DOMAIN out.docs : out.docs[i].time_boost > BoostNone

QuerySim(doc) == Dot(embed_query(req), doc.content_emb)

\* C8 as stated: when the pool is larger than top_k (top_k >= 1) so that MMR
\* runs, the first returned document is the one with the globally highest
\* boosted score of the pool.
C8_FirstIsTopBoosted ==
    (Completed /\ out.mmr_ran /\ EffectiveTopK(cfg, req) >= 1) =>
        \A i \in DOMAIN out.pool : out.pool[i].score <= out.docs[1].score

\* C8 as amended: when MMR runs, the first returned document is the pool
\* document whose content embedding has the highest dot product with the
\* query embedding, the earliest of the pool among equals.
C8_FirstIsMostSimilar ==
    (Completed /\ out.mmr_ran) =>
        \E p \in DOMAIN out.pool :
            /\ out.docs[1] = out.pool[p]
            /\ \A i \in DOMAIN out.pool : QuerySim(out.pool[i]) <= QuerySim(out.pool[p])
            /\ \A i \in DOMAIN out.pool : i < p => QuerySim(out.pool[i]) < QuerySim(out.pool[p])

C8_Witness ==
    /\ Completed
    /\ out.mmr_ran
    /\ out.docs[1].score < out.pool[1].score

\* the boosted document of the pool that has this id
PoolDoc(id) == CHOOSE d \in Range(out.pool) : d.id = id

\* C9: of two candidates with the same raw score (of either sign) that differ
\* only in their parsable timestamp, the more recent has a post-boost score
\* greater than or equal to that of the older.
C9_RecencyMonotone ==
    Completed =>
        \A i, j \in DOMAIN out.merged :
            LET a == out.merged[i]
                b == out.merged[j]
            IN (a.score = b.score /\ a.source = b.source /\ a.ts_ok /\ b.ts_ok
                    /\ a.age < b.age)
                   => PoolDoc(a.id).score >= PoolDoc(b.id).score

\* the document's score was multiplied by boost (in tenths)
BoostedBy(raw, boost) ==
    /\ PoolDoc(raw.id).score * 10 = raw.score * boost
    /\ PoolDoc(raw.id).time_boost = boost

\* C10 as stated: for every recency_boost_days, a parsable document is
\* multiplied by 1.2 when age <= recency_boost_days, by 1.1 when
\* recency_boost_days < age <= 30, and by 1.0 when age > 30.
C10_TiersAsStated ==
    Completed =>
        \A i \in DOMAIN out.merged :
            LET raw == out.merged[i]
                days == cfg.RECENCY_BOOST_DAYS
            IN raw.ts_ok =>
                /\ raw.age <= days => BoostedBy(raw, BoostRecent)
                /\ (days < raw.age /\ raw.age <= MonthDays) => BoostedBy(raw, BoostMonth)
                /\ raw.age > MonthDays => BoostedBy(raw, BoostNone)

\* C10 as amended: 1.2 when age <= recency_boost_days, 1.1 when
\* recency_boost_days < age <= 30, and 1.0 when age > 30 and
\* age > recency_boost_days.
C10_Tiers ==
    Completed =>
        \A i \in DOMAIN out.merged :
            LET raw == out.merged[i]
                days == cfg.RECENCY_BOOST_DAYS
            IN raw.ts_ok =>
                /\ raw.age <= days => BoostedBy(raw, BoostRecent)
                /\ (days < raw.age /\ raw.age <= MonthDays) => BoostedBy(raw, BoostMonth)
                /\ (raw.age > MonthDays /\ raw.age > days) => BoostedBy(raw, BoostNone)

C10_Witness ==
    /\ Completed
    /\ cfg.RECENCY_BOOST_DAYS > MonthDays
    /\ \E i, j \in DOMAIN out.merged :
          /\ out.merged[i].ts_ok /\ out.merged[i].age > MonthDays
          /\ out.merged[i].age <= cfg.RECENCY_BOOST_DAYS
          /\ BoostedBy(out.merged[i], BoostRecent)
          /\ out.merged[j].ts_ok /\ out.merged[j].age > cfg.RECENCY_BOOST_DAYS
          /\ BoostedBy(out.merged[j], BoostNone)

-----------------------------------------------------------------------------
\* the document of the merged list with this id
MergedDoc(id) == CHOOSE d \in Range(out.merged) : d.id = id

(* C11: a document whose timestamp cannot be parsed (or is missing) is       *)
(* tolerated on its own: it stays in the pool with its fused score and no    *)
(* time_boost, every document whose timestamp parses is still boosted, and   *)
(* the call completes.                                                       *)
C11_BadTimestampTolerated ==
    (out.status # "pending" /\ req.fail = "none") =>
        /\ Completed
        /\ RowIds(out.pool) = RowIds(out.merged)
        /\ \A i \in DOMAIN out.merged :
              LET raw == out.merged[i]
                  doc == PoolDoc(raw.id)
              IN IF raw.ts_ok
                 THEN BoostedBy(raw, Boost(raw.age, cfg.RECENCY_BOOST_DAYS))
                 ELSE doc.score = raw.score /\ doc.time_boost = 0

\* a pool holding an unparsable document next to one boosted by 1.2
C11_Witness ==
    /\ Completed
    /\ \E i, j \in DOMAIN out.pool :
          /\ ~out.pool[i].ts_ok
          /\ out.pool[i].score = MergedDoc(out.pool[i].id).score
          /\ out.pool[j].time_boost = BoostRecent
          /\ out.pool[j].score > MergedDoc(out.pool[j].id).score

-----------------------------------------------------------------------------
(* C12: the merged list holds exactly one document per distinct id of the    *)
(* two result lists; an id the vector list holds is represented by its       *)
(* vector entry (source 'vector', score = similarity), and a keyword entry   *)
(* stands only for an id the vector list does not hold.                      *)
C12_FusionByUnion ==
    Completed =>
        /\ RowIds(out.merged) = CandidateIds
        /\ Len(out.merged) = Cardinality(CandidateIds)
        /\ \A i \in DOMAIN out.merged :
              LET d == out.merged[i]
              IN IF d.id \in RowIds(out.vector_rows)
                 THEN /\ d.source = "vector"
                      /\ \E j \in DOMAIN out.vector_rows :
                            /\ out.vector_rows[j].id = d.id
                            /\ d.score = out.vector_rows[j].similarity
                 ELSE /\ d.source = "keyword"
                      /\ \E j \in DOMAIN out.keyword_rows :
                            /\ out.keyword_rows[j].id = d.id
                            /\ d.score = KeywordScore(out.keyword_rows[j].rank)

\* an id in both lists whose two scores differ, next to a keyword-only id
C12_Witness ==
    /\ Completed
    /\ \E i \in DOMAIN out.vector_rows, j \in DOMAIN out.keyword_rows :
          /\ out.vector_rows[i].id = out.keyword_rows[j].id
          /\ out.vector_rows[i].similarity # KeywordScore(out.keyword_rows[j].rank)
    /\ RowIds(out.keyword_rows) \ RowIds(out.vector_rows) # {}

-----------------------------------------------------------------------------
\* the rows the generator that did not fail finds for this call
SurvivingRows ==
    IF req.fail = "keyword"
    THEN _vector_search(store, embed_query(req), req.conversation_id, Cutoff,
                        cfg.VECTOR_SEARCH_K, req.tie)
    ELSE _keyword_search(store, req.conversation_id, Cutoff,
                         cfg.KEYWORD_SEARCH_K, req.tie)

(* C13: when the store call of one generator raises, that generator yields   *)
(* an empty list without raising, so a call with top_k >= 1 still returns    *)
(* documents whenever the other generator finds candidates.                  *)
C13_GeneratorFailureLocal ==
    (/\ out.status # "pending"
     /\ req.fail \in {"vector", "keyword"}
     /\ EffectiveTopK(cfg, req) >= 1
     /\ SurvivingRows # << >>)
        => (out.status = "returned" /\ out.docs # << >>)

-----------------------------------------------------------------------------
(* C14: when the embedding provider fails while the query is embedded - the  *)
(* model cannot be loaded, or model.encode raises - hybrid_retrieve returns  *)
(* the empty list and issues no document.                                    *)
C14_EmbeddingFailureEmpty ==
    (out.status # "pending" /\ req.fail \in {"embedder", "encode"}) =>
        (out.status = "returned" /\ out.docs = << >>)

-----------------------------------------------------------------------------
(* C16: within one call the query is embedded at most once and each of the   *)
(* two searches is issued at most once; a search that failed was issued      *)
(* exactly once (no second attempt), and the stages after it not at all.     *)
C16_SingleAttempt ==
    out.status # "pending" =>
        /\ out.calls.embed_query <= 1
        /\ out.calls.vector_search <= 1
        /\ out.calls.keyword_search <= 1
        /\ req.fail \in {"store", "vector"} =>
              (out.calls.vector_search = 1 /\ out.calls.keyword_search = 0)
        /\ req.fail = "keyword" => out.calls.keyword_search = 1
        /\ Completed =>
              out.calls = [embed_query |-> 1, vector_search |-> 1, keyword_search |-> 1]

\* the vector search failed after one attempt and the call returned
C16_Witness ==
    /\ out.status = "returned"
    /\ req.fail = "vector"
    /\ out.calls.embed_query = 1
    /\ out.calls.vector_search = 1
    /\ out.calls.keyword_search = 0

-----------------------------------------------------------------------------
\* the position of a returned document in the pool
PoolPos(doc) == CHOOSE p \in DOMAIN out.pool : out.pool[p].id = doc.id

\* the MMR score of a candidate against the first n returned documents
MmrOf(doc, n) ==
    (10 - cfg.MMR_DIVERSITY) * QuerySim(doc)
        - cfg.MMR_DIVERSITY
            * MaxOf({Dot(doc.content_emb, out.docs[i].content_emb) : i \in 1..n})

\* the pool documents that are not among the first n returned documents
NotYetSelected(n) ==
    {d \in Range(out.pool) : \A i \in 1..n : out.docs[i].id # d.id}

-----------------------------------------------------------------------------
(* C18: with MMR_DIVERSITY = 0 and a pool larger than K, the selection is a  *)
(* pure relevance ranking: the result holds K documents in descending order  *)
(* of query similarity, and no document left out is more similar to the      *)
(* query than a returned one, whatever the documents' mutual similarities.   *)
C18_PureRelevance ==
    (Completed /\ out.mmr_ran /\ cfg.MMR_DIVERSITY = 0) =>
        /\ Len(out.docs) = EffectiveTopK(cfg, req)
        /\ \A i, j \in DOMAIN out.docs :
              i < j => QuerySim(out.docs[i]) >= QuerySim(out.docs[j])
        /\ \A c \in NotYetSelected(Len(out.docs)) :
              \A j \in DOMAIN out.docs : QuerySim(c) <= QuerySim(out.docs[j])

-----------------------------------------------------------------------------
(* C19: every row the application wrote through the Save and New Chat        *)
(* buttons carries in its metadata at least conversation_id, turn_number,    *)
(* topics and the timestamps.                                                *)
C19_SavedMetadataKeys ==
    \A i \in DOMAIN store :
        {"conversation_id", "turn_number", "topics", "start_time", "end_time"}
            \subseteq DOMAIN store[i].metadata

-----------------------------------------------------------------------------
\* the row is tagged with the retrieved conversation and has no turn_number
CurrentWithoutTurn(row) ==
    /\ "conversation_id" \in DOMAIN row.metadata
    /\ "turn_number" \notin DOMAIN row.metadata
    /\ row.metadata.conversation_id = req.conversation_id

(* C20: a record of the current conversation whose metadata has no           *)
(* turn_number is treated by both generators as turn 0: it is excluded       *)
(* exactly when 0 > current turn - session_history_limit, and otherwise      *)
(* returned like any other row.                                              *)
C20_MissingTurnIsZero ==
    Completed =>
        \A i \in DOMAIN store :
            CurrentWithoutTurn(store[i]) =>
                IF 0 > Cutoff
                THEN ~InVector(store[i]) /\ ~InKeyword(store[i])
                ELSE /\ VectorUncut => InVector(store[i])
                     /\ (KeywordUncut /\ store[i].matches) => InKeyword(store[i])

\* a matching record without turn_number that a negative cutoff excludes from
\* both result lists, next to a record that is returned
C20_Witness ==
    /\ Completed
    /\ 0 > Cutoff
    /\ \E i \in DOMAIN store :
          /\ CurrentWithoutTurn(store[i]) /\ store[i].matches
          /\ ~InVector(store[i]) /\ ~InKeyword(store[i])
    /\ out.vector_rows # << >>

-----------------------------------------------------------------------------
\* b is the record a, up to a backfill of a NULL embedding
SameRecord(a, b) ==
    /\ b.id = a.id
    /\ b.metadata = a.metadata
    /\ b.content_emb = a.content_emb
    /\ b.matches = a.matches /\ b.rank = a.rank
    /\ b.ts_ok = a.ts_ok /\ b.age = a.age
    /\ DOMAIN b = DOMAIN a
    /\ "full_transcript" \in DOMAIN a => b.full_transcript = a.full_transcript
    /\ a.embedding # NullEmb => b.embedding = a.embedding

(* C21: no step - a save, a retrieval, a run of the re-embedding job -        *)
(* removes a stored record or changes its title, transcript or metadata, and *)
(* none changes an embedding that is already set.                            *)
C21_RecordsImmutable ==
    [][\A i \in DOMAIN store :
          i \in DOMAIN store' /\ SameRecord(store[i], store'[i])]_vars

\* the job has run over a store that holds a row with an embedding from an
\* older model, a row the application saved, and a retrieval has been made
C21_Witness ==
    /\ job # "idle"
    /\ out.status = "returned"
    /\ \E i, j \in DOMAIN store :
          /\ store[i].embedding # NullEmb
          /\ store[i].embedding # store[i].content_emb
          /\ "turn_count" \in DOMAIN store[j].metadata

-----------------------------------------------------------------------------
\* the ts_rank of the keyword row behind a keyword-sourced document
RankOf(doc) ==
    (CHOOSE r \in Range(out.keyword_rows) : r.id = doc.id).rank

(* C23: a keyword-sourced document enters the fused list with score          *)
(* min(rank / 0.3, 1.0): rank / 0.3 while that is below 1.0, and 1.0 from    *)
(* there on; so its score is at most 1.0 before the boost and at most 1.2    *)
(* after it.                                                                 *)
C23_KeywordRescaling ==
    Completed =>
        \A i \in DOMAIN out.merged :
            LET doc == out.merged[i]
            IN doc.source = "keyword" =>
                /\ IF RankOf(doc) * 10 >= 3 * ScoreOne
                   THEN doc.score = ScoreOne
                   ELSE /\ 3 * doc.score <= RankOf(doc) * 10
                        /\ RankOf(doc) * 10 < 3 * (doc.score + 1)
                /\ doc.score <= ScoreOne
                /\ PoolDoc(doc.id).score * 10 <= ScoreOne * BoostRecent

\* a keyword-sourced document whose rank is above 0.3: clamped to 1.0, and
\* boosted to 1.2
C23_Witness ==
    /\ Completed
    /\ \E i \in DOMAIN out.merged :
          /\ out.merged[i].source = "keyword"
          /\ RankOf(out.merged[i]) * 10 > 3 * ScoreOne
          /\ out.merged[i].score = ScoreOne
          /\ PoolDoc(out.merged[i].id).score * 10 = ScoreOne * BoostRecent

-----------------------------------------------------------------------------
(* C24: save_conversation returns the id of the new record exactly when one  *)
(* record was inserted, and returns None with no record inserted when the    *)
(* message list is empty or when formatting, embedding or the insert fails.  *)
C24_SaveNoneOnFailure ==
    ret.called =>
        /\ ret.id # 0 <=> Len(store) = req.rows_before + 1
        /\ ret.id # 0 => store[Len(store)].id = ret.id
        /\ (req.messages = << >> \/ req.fail # "none") =>
              (ret.id = 0 /\ Len(store) = req.rows_before)

-----------------------------------------------------------------------------
\* the turn at which a transcript was saved: its number of user messages
TurnsOf(messages) == Len(SelectSeq(messages, LAMBDA m : m = "user"))

\* the stored row behind a returned document
StoredRow(doc) == CHOOSE row \in Range(store) : row.id = doc.id

(* C26: a record the running conversation saved at turn T is never among the *)
(* documents a later retrieval of that conversation at turn N returns while  *)
(* T > N - session_history_limit.                                            *)
C26_NoRecentTurnLeak ==
    \A i \in DOMAIN out.docs :
        LET row == StoredRow(out.docs[i])
        IN (/\ "full_transcript" \in DOMAIN row
            /\ row.metadata.conversation_id = req.conversation_id)
              => ~(TurnsOf(row.full_transcript) > Cutoff)

-----------------------------------------------------------------------------
(* C28: New Chat shows its confirmation only when a record of the            *)
(* conversation was inserted: whenever the page shows the New Chat           *)
(* confirmation, the save_conversation call behind it returned the id of a   *)
(* row that is in the store.                                                 *)
C28_ConfirmationMeansSaved ==
    shown = "saved to memory" =>
        /\ ret.called
        /\ ret.id # 0
        /\ \E i \in DOMAIN store : store[i].id = ret.id

-----------------------------------------------------------------------------
\* the conversation ids of the rows in the store
StoredConvIds ==
    {store[i].metadata.conversation_id : i \in DOMAIN store}

(* C29: turn_number always equals the number of user messages of the         *)
(* session's history, whether or not a response was generated; and a New     *)
(* Chat press empties the history and sets turn_number to 0 in the same      *)
(* step, draws a conversation_id that is neither the old one nor that of a   *)
(* stored record, and leaves voice_cost and grok_cost as they were.          *)
C29_SessionCounter ==
    /\ session.turn_number = TurnsOf(session.messages)
    /\ [][/\ session'.turn_number = TurnsOf(session'.messages)
          /\ session'.uuids # session.uuids =>
                /\ session'.messages = << >>
                /\ session'.turn_number = 0
                /\ session'.conversation_id # session.conversation_id
                /\ session'.conversation_id \notin StoredConvIds'
                /\ session'.voice_cost = session.voice_cost
                /\ session'.grok_cost = session.grok_cost]_vars

\* after a New Chat press that followed charged requests, a prompt whose
\* response failed: one user message, turn 1
C29_Witness ==
    /\ session.uuids > 1
    /\ session.messages = <<"user">>
    /\ session.turn_number = 1
    /\ session.voice_cost > 0 /\ session.grok_cost > 0
    /\ store # << >>


-----------------------------------------------------------------------------
(* Properties of the connection pool *)

\* the threads that hold a connection inside a with-block
Holding == {t \in 1..Callers : conns.callers[t].pc # "out" /\ conns.callers[t].conn}

\* C25: a connection taken by get_connection is returned exactly once when the
\* with-block exits, normally or with any exception, and a with-block that
\* got no connection returns none; the connections checked out are exactly
\* those of the callers inside a with-block, so none stays checked out
C25_ConnectionReturnedOnce ==
    /\ \A t \in 1..Callers :
          LET c == conns.callers[t]
          IN c.puts = IF c.pc = "out" /\ c.conn THEN 1 ELSE 0
    /\ conns.used = conns.busy + Cardinality(Holding)

\* a with-block left by an exception that is no psycopg2.Error, while other
\* sessions hold connections
C25_Witness ==
    /\ conns.busy > 0
    /\ \E t \in 1..Callers :
          /\ conns.callers[t].pc = "out"
          /\ conns.callers[t].raising = "other"
          /\ conns.callers[t].puts = 1
          /\ conns.used = conns.busy

\* C27: on every exit path of get_connection the connection handed to putconn
\* has been committed or rolled back (or is closed): no transaction is open
C27_NoOpenTransactionAtPutconn ==
    \A t \in 1..Callers :
        LET c == conns.callers[t]
        IN c.puts > 0 => c.tx_at_put = "idle" \/ c.closed

\* C22: a hybrid_retrieve call leaves the stored records unchanged and returns
\* the list it returns when no other session is using the store
C22_RetrievalNonInterfering ==
    [][out'.status = "returned" =>
          /\ store' = store
          /\ out'.docs = hybrid_retrieve(store', cfg', req').docs]_vars


-----------------------------------------------------------------------------
(* Properties of the weekly digest *)

=============================================================================
